---------------------------- MODULE Spec2Model ----------------------------
(***************************************************************************)
(* Model of the timed exam session of the e-learning application:          *)
(*   - CourseExam (src/unnamed/part_005): fetchExam, the countdown effect,  *)
(*     handleAnswerSelect, handleSubmit and the view the component renders; *)
(*   - ExamCreator (src/src/components/exams/ExamCreator.tsx): how the two  *)
(*     exam-creation flows store a question and its correct answer;         *)
(*   - the rows the handlers write: exam_attempts, enrollments,             *)
(*     certificates.                                                        *)
(* JavaScript numbers are IEEE-754 doubles: the score computation is        *)
(* modelled bit-exactly (division, multiplication, Math.round).             *)
(***************************************************************************)
EXTENDS Integers, Sequences, FiniteSets, TLC

(***************************************************************************)
(* JavaScript values                                                       *)
(***************************************************************************)

\* A JS number that is either an integer value or NaN.
Num(n) == [nan |-> FALSE, v |-> n]
NaN == [nan |-> TRUE, v |-> 0]

\* a >= b on JS numbers: every comparison with NaN is false.
JsGeq(a, b) == ~a.nan /\ ~b.nan /\ a.v >= b.v

\* A stored correct answer: a number (an option index) or a string (an
\* option's text; v is the position of that text in the option list).
NumVal(i) == [t |-> "number", v |-> i]
StrVal(i) == [t |-> "string", v |-> i]

\* a === b: strict equality, no coercion between number and string.
StrictEq(a, b) == a.t = b.t /\ a.v = b.v

(***************************************************************************)
(* IEEE-754 binary64 arithmetic.  A positive double is [m, n]: the         *)
(* significand m is a sequence of limbs, most significant first, the first *)
(* limb holding the integer bits and each of the FracLimbs others holding  *)
(* 13 fraction bits (4 * 13 = 52, the fraction width of a double); the     *)
(* value is m * 2^(-52 - n).                                                *)
(***************************************************************************)

LimbBase == 2^13
FracLimbs == 4

\* Number of bits of a positive integer.
RECURSIVE BitLen(_)
BitLen(k) == IF k = 0 THEN 0 ELSE 1 + BitLen(k \div 2)

\* Smallest n with e * 2^n >= t (e > 0).
RECURSIVE NormShift(_, _)
NormShift(e, t) == IF e >= t THEN 0 ELSE 1 + NormShift(2 * e, t)

\* k further quotient limbs of r / t (r < t) by long division.
RECURSIVE DivLimbs(_, _, _)
DivLimbs(r, t, k) ==
  IF k = 0 THEN [q |-> <<>>, rem |-> r]
  ELSE LET rest == DivLimbs((r * LimbBase) % t, t, k - 1)
       IN [q |-> <<(r * LimbBase) \div t>> \o rest.q, rem |-> rest.rem]

\* limbs + c, added at the least significant limb, the carry propagated.
RECURSIVE AddLow(_, _)
AddLow(limbs, c) ==
  IF Len(limbs) = 1 THEN <<limbs[1] + c>>
  ELSE LET s == limbs[Len(limbs)] + c
       IN Append(AddLow(SubSeq(limbs, 1, Len(limbs) - 1), s \div LimbBase),
                 s % LimbBase)

\* limbs * c + carry for a small integer c.
RECURSIVE MulLimbs(_, _, _)
MulLimbs(limbs, c, carry) ==
  IF Len(limbs) = 1 THEN <<limbs[1] * c + carry>>
  ELSE LET v == limbs[Len(limbs)] * c + carry
       IN Append(MulLimbs(SubSeq(limbs, 1, Len(limbs) - 1), c, v \div LimbBase),
                 v % LimbBase)

\* The double nearest to e / t (round to nearest, ties to even) for
\* integers 0 < e <= t.
DoubleDiv(e, t) ==
  LET n  == NormShift(e, t)
      d  == DivLimbs(e * 2^n - t, t, FracLimbs)
      m0 == <<1>> \o d.q
      up == 2 * d.rem > t \/ (2 * d.rem = t /\ m0[Len(m0)] % 2 = 1)
  IN [m |-> IF up THEN AddLow(m0, 1) ELSE m0, n |-> n]

\* The double nearest to x * c (round to nearest, ties to even) for a
\* double x > 0 and an integer 0 < c < 2^12: the exact product has k bits
\* more than the significand holds, which are rounded away.
DoubleMulSmall(x, c) ==
  LET p    == MulLimbs(x.m, c, 0)
      k    == BitLen(p[1]) - 1
      low  == p[Len(p)]
      drop == low % 2^k
      half == 2^k \div 2
      up   == k >= 1 /\ (drop > half \/ (drop = half /\ (low \div 2^k) % 2 = 1))
      kept == [p EXCEPT ![Len(p)] = low - drop]
  IN [m |-> IF up THEN AddLow(kept, 2^k) ELSE kept, n |-> x.n]

\* Math.round of a double x > 0: the nearest integer, a fraction of exactly
\* one half rounding up.
MathRound(x) ==
  LET int  == x.m[1] \div 2^x.n
      half == IF x.n >= 1 THEN (x.m[1] \div 2^(x.n - 1)) % 2
              ELSE x.m[2] \div (LimbBase \div 2)
  IN int + half

\* Math.round((totalScore / totalPoints) * 100) for 0 <= totalScore <=
\* totalPoints; 0 / 0 is NaN and Math.round(NaN) is NaN.
FinalScore(totalScore, totalPoints) ==
  IF totalPoints = 0 THEN NaN
  ELSE IF totalScore = 0 THEN Num(0)
  ELSE Num(MathRound(DoubleMulSmall(DoubleDiv(totalScore, totalPoints), 100)))

(***************************************************************************)
(* Bounds of the model                                                     *)
(***************************************************************************)

\* Most questions of an exam.
MaxQuestions == 2
\* Most handleSubmit invocations in flight at once.
MaxInFlight == 2
\* Point values a question may carry: 17 + 23 = 40 gives the quotient
\* 23 / 40, the smallest one whose double is not the exact fraction's round.
PointValues == {0, 1, 17, 23}
\* Passing thresholds of an exam (percent).
PassingScores == {50, 58}
\* Durations of an exam (minutes).
Durations == {1}

(***************************************************************************)
(* Exams, questions and the exam-creation flows (ExamCreator)              *)
(***************************************************************************)

\* Options of a true/false question.
NumOptions == 2
OptionIndexes == 0 .. NumOptions - 1

\* The values of the JS sequence s as a set.
Range(s) == {s[i] : i \in 1 .. Len(s)}

\* Sequences over S of length lo .. hi.
SeqsOf(S, lo, hi) == UNION {[1 .. n -> S] : n \in lo .. hi}

\* What the instructor enters for a question: the option designated as
\* correct (by position) and the point value.
FormsOver(points, designated, passing) ==
  [questions : SeqsOf([designated : designated, points : points],
                      1, MaxQuestions),
   passing_score : passing, duration : Durations]

\* The text of option k of a question, as a JS string value.
OptionText(k) == StrVal(k)

\* exam_questions rows written by the first ExamCreator.handleSubmit: the
\* correct answer is the text of the chosen option, order_index is the
\* position from 0.
FormattedQuestions(form) ==
  [i \in 1 .. Len(form.questions) |->
     [options        |-> NumOptions,
      correct_answer |-> OptionText(form.questions[i].designated),
      points         |-> form.questions[i].points,
      order_index    |-> i - 1]]

\* exam_questions rows written by the second ExamCreator.handleSubmit: the
\* correct answer is the value of the chosen <option>, the option's text;
\* order_index is the position from 1.
QuestionsToInsert(form) ==
  [i \in 1 .. Len(form.questions) |->
     [options        |-> NumOptions,
      correct_answer |-> OptionText(form.questions[i].designated),
      points         |-> form.questions[i].points,
      order_index    |-> i]]

\* Rows whose correct answer is the index of the designated option, the
\* representation CourseExam's Question interface declares.
IndexedQuestions(form) ==
  [i \in 1 .. Len(form.questions) |->
     [options        |-> NumOptions,
      correct_answer |-> NumVal(form.questions[i].designated),
      points         |-> form.questions[i].points,
      order_index    |-> i]]

Flows == {"creator1", "creator2", "indexed"}

\* The forms a flow accepts: the first ExamCreator has no input for the
\* points (each question keeps its initial 1 point), the second requires
\* min="1"; rows written past the forms carry any point value.
FormsOf(flow, points, designated, passing) ==
  CASE flow = "creator1" -> FormsOver({1}, designated, passing)
    [] flow = "creator2" -> FormsOver(points \ {0}, designated, passing)
    [] flow = "indexed"  -> FormsOver(points, designated, passing)

StoredQuestions(form, flow) ==
  CASE flow = "creator1" -> FormattedQuestions(form)
    [] flow = "creator2" -> QuestionsToInsert(form)
    [] flow = "indexed"  -> IndexedQuestions(form)

\* The course_exams row with its exam_questions rows.
StoredExam(form, flow) ==
  [id |-> "e1", course_id |-> "c1", duration |-> form.duration,
   passing_score |-> form.passing_score,
   questions |-> StoredQuestions(form, flow)]

(***************************************************************************)
(* CourseExam: pure parts                                                  *)
(***************************************************************************)

\* An unanswered slot of selectedAnswers.
NoSelection == -1
\* A slot of a JS array that was never assigned (reads as undefined).
Hole == NoSelection - 1

\* The columns fetchExam selects: the payload the component holds.
QuestionPayload(row) ==
  [options |-> row.options, correct_answer |-> row.correct_answer,
   points |-> row.points]

ExamPayload(row) ==
  [id |-> row.id, duration |-> row.duration,
   passing_score |-> row.passing_score,
   questions |-> [i \in 1 .. Len(row.questions) |->
                    QuestionPayload(row.questions[i])]]

\* new Array(n).fill(-1)
InitialAnswers(n) == [i \in 1 .. n |-> NoSelection]

\* The state updater of handleAnswerSelect: a copy of prev with
\* newAnswers[questionIndex] = answerIndex (questionIndex from 0).  A JS
\* array grows, leaving holes, when the index is past its end; a negative
\* index sets a property and leaves every slot as it was.
HandleAnswerSelect(prev, questionIndex, answerIndex) ==
  IF questionIndex < 0 THEN prev
  ELSE [i \in 1 .. (IF questionIndex + 1 > Len(prev) THEN questionIndex + 1
                    ELSE Len(prev)) |->
          IF i = questionIndex + 1 THEN answerIndex
          ELSE IF i <= Len(prev) THEN prev[i] ELSE Hole]

\* selectedAnswers[index] as a JS value (index from 1 here).
Undefined == [t |-> "undefined", v |-> 0]
SelectedValue(answers, i) ==
  IF i <= Len(answers) /\ answers[i] # Hole THEN NumVal(answers[i])
  ELSE Undefined

\* The forEach loop of handleSubmit.
RECURSIVE SumPoints(_, _)
SumPoints(questions, S) ==
  IF S = {} THEN 0
  ELSE LET i == CHOOSE j \in S : TRUE
       IN questions[i].points + SumPoints(questions, S \ {i})

TotalPoints(questions) == SumPoints(questions, DOMAIN questions)

Matching(questions, answers) ==
  {i \in DOMAIN questions :
     StrictEq(SelectedValue(answers, i), questions[i].correct_answer)}

TotalScore(questions, answers) ==
  SumPoints(questions, Matching(questions, answers))

\* finalScore and passed of handleSubmit.
Grade(exam, answers) ==
  LET fs == FinalScore(TotalScore(exam.questions, answers),
                       TotalPoints(exam.questions))
  IN [score |-> fs, passed |-> JsGeq(fs, Num(exam.passing_score))]

(***************************************************************************)
(* CourseExam: the mounted component, its requests in flight and the rows  *)
(* it writes                                                               *)
(***************************************************************************)

VARIABLES
  user,             \* useAuthStore().user: an account id, or NoUser
  dbExams,          \* course_exams rows of the course, with their questions
  attempts,         \* exam_attempts rows, in insertion order
  enrollment,       \* the enrollments row of (user, course)
  certificates,     \* certificates rows, in insertion order
  loading,          \* component state: fetchExam has not returned
  exam,             \* component state: the fetched payload, or NoExam
  currentQuestion,  \* component state: index of the question shown, from 0
  selectedAnswers,  \* component state: the answer vector
  timeLeft,         \* component state: seconds left, or Null
  examSubmitted,    \* component state
  score,            \* component state
  error,            \* component state: an error message, or NoError
  inflight,         \* handleSubmit invocations suspended at an await
  g,                \* the grading pipeline run on its own (see Pipeline)
  pg                \* the tables under row-level security (see Policies)

sessionVars ==
  <<user, dbExams, attempts, enrollment, certificates, loading, exam,
    currentQuestion, selectedAnswers, timeLeft, examSubmitted, score, error,
    inflight>>
vars == <<sessionVars, g, pg>>

NoUser == "anonymous"
NoError == "null"
\* timeLeft before the exam is fetched (useState<number | null>(null)).
Null == NoSelection
NoExam == [id |-> "none", duration |-> 0, passing_score |-> 0, questions |-> <<>>]
NoEnrollment == [status |-> "none", progress |-> 0]

SecondsPerMinute == 60

\* The exams a session is run on.
SessionPointValues == {0, 1}
SessionPassingScores == {50}
SessionDesignated == {0}
SessionExams ==
  UNION {{StoredExam(f, fl) :
            f \in FormsOf(fl, SessionPointValues, SessionDesignated,
                          SessionPassingScores)} :
         fl \in Flows}

\* What the component renders.
View ==
  IF loading THEN "Loading"
  ELSE IF error # NoError \/ exam = NoExam THEN "Error"
  ELSE IF examSubmitted THEN "Result"
  ELSE "Exam"

\* The countdown effect has an interval installed.
TimerRunning == timeLeft # Null /\ timeLeft # 0 /\ ~examSubmitted

\* The Submit Exam button is rendered and enabled.
SubmitButtonEnabled ==
  /\ View = "Exam"
  /\ currentQuestion = Len(exam.questions) - 1
  /\ NoSelection \notin Range(selectedAnswers)

\* Row-level security of enrollments: the migration enables it and creates
\* policies FOR SELECT and FOR INSERT only, so an UPDATE sees no row.
EnrollmentsUpdatePolicy(uid, row) == FALSE

RemoveAt(s, i) == SubSeq(s, 1, i - 1) \o SubSeq(s, i + 1, Len(s))

GIdle == [stage |-> "idle"]
PgIdle == [stage |-> "idle"]

\* The course_exams rows the select of fetchExam returns to a requester.
\* No policy on course_exams is declared by the migrations; a row is taken
\* to be either shown to the requester or filtered out by the store.
ExamVisible(uid, row) == row.visible
VisibleExams(uid, rows) == SelectSeq(rows, LAMBDA r : ExamVisible(uid, r))

SessionInit ==
  /\ user \in {NoUser, "s1"}
  /\ dbExams \in {<<>>} \cup {<<[visible |-> v] @@ e>> :
                                e \in SessionExams, v \in BOOLEAN}
  /\ attempts = <<>>
  /\ enrollment \in {NoEnrollment, [status |-> "enrolled", progress |-> 0]}
  /\ certificates = <<>>
  /\ loading = TRUE
  /\ exam = NoExam
  /\ currentQuestion = 0
  /\ selectedAnswers = <<>>
  /\ timeLeft = Null
  /\ examSubmitted = FALSE
  /\ score = Num(0)
  /\ error = NoError
  /\ inflight = <<>>

dbVars == <<dbExams, attempts, enrollment, certificates>>

\* FetchExamOk with the duration taken as seconds.
FetchExamOkInMinutes ==
  /\ loading
  /\ Len(VisibleExams(user, dbExams)) = 1
  /\ selectedAnswers' = InitialAnswers(Len(VisibleExams(user, dbExams)[1].questions))
  /\ timeLeft' = VisibleExams(user, dbExams)[1].duration
  /\ exam' = ExamPayload(VisibleExams(user, dbExams)[1])
  /\ loading' = FALSE
  /\ UNCHANGED <<user, dbVars, currentQuestion, examSubmitted, score, error,
                 inflight, g, pg>>

\* fetchExam returns the single exam of the course.
FetchExamOk ==
  /\ loading
  /\ Len(VisibleExams(user, dbExams)) = 1
  /\ selectedAnswers' = InitialAnswers(Len(VisibleExams(user, dbExams)[1].questions))
  /\ timeLeft' = VisibleExams(user, dbExams)[1].duration * SecondsPerMinute
  /\ exam' = ExamPayload(VisibleExams(user, dbExams)[1])
  /\ loading' = FALSE
  /\ UNCHANGED <<user, dbVars, currentQuestion, examSubmitted, score, error,
                 inflight, g, pg>>

\* FetchExamError with a message of its own for a row the store withheld.
FetchExamErrorTellingHidden ==
  /\ loading
  /\ error' = IF dbExams # <<>> /\ VisibleExams(user, dbExams) = <<>>
              THEN "forbidden" ELSE "load"
  /\ loading' = FALSE
  /\ UNCHANGED <<user, dbVars, exam, currentQuestion, selectedAnswers,
                 timeLeft, examSubmitted, score, inflight, g, pg>>

\* fetchExam fails: .single() found no row or several, or the store failed.
FetchExamError ==
  /\ loading
  /\ error' = "load"
  /\ loading' = FALSE
  /\ UNCHANGED <<user, dbVars, exam, currentQuestion, selectedAnswers,
                 timeLeft, examSubmitted, score, inflight, g, pg>>

\* handleSubmit up to its first await: grade, then send the attempt insert.
StartSubmit(answers) ==
  IF exam = NoExam \/ user = NoUser THEN inflight
  ELSE Append(inflight,
              [pc |-> "attempt", answers |-> answers,
               score |-> Grade(exam, answers).score,
               passed |-> Grade(exam, answers).passed])

\* The interval callback: setTimeLeft's updater.  The handleSubmit it calls
\* is the one of the render in which the effect last ran; it is given the
\* answers of the current render here.
Tick ==
  /\ TimerRunning
  /\ IF timeLeft > 0
     THEN /\ timeLeft' = timeLeft - 1
          /\ inflight' = inflight
     ELSE /\ timeLeft' = 0
          /\ inflight' = StartSubmit(selectedAnswers)
  /\ UNCHANGED <<user, dbVars, loading, exam, currentQuestion,
                 selectedAnswers, examSubmitted, score, error, g, pg>>

\* A click on an option of the question shown.
SelectAnswer ==
  /\ View = "Exam"
  /\ ~examSubmitted
  /\ \E index \in 0 .. exam.questions[currentQuestion + 1].options - 1 :
       selectedAnswers' = HandleAnswerSelect(selectedAnswers, currentQuestion, index)
  /\ UNCHANGED <<user, dbVars, loading, exam, currentQuestion, timeLeft,
                 examSubmitted, score, error, inflight, g, pg>>

NextQuestion ==
  /\ View = "Exam"
  /\ currentQuestion # Len(exam.questions) - 1
  /\ selectedAnswers[currentQuestion + 1] # NoSelection
  /\ currentQuestion' = currentQuestion + 1
  /\ UNCHANGED <<user, dbVars, loading, exam, selectedAnswers, timeLeft,
                 examSubmitted, score, error, inflight, g, pg>>

PreviousQuestion ==
  /\ View = "Exam"
  /\ currentQuestion # 0
  /\ currentQuestion' = currentQuestion - 1
  /\ UNCHANGED <<user, dbVars, loading, exam, selectedAnswers, timeLeft,
                 examSubmitted, score, error, inflight, g, pg>>

\* A click on Submit Exam.
ClickSubmit ==
  /\ SubmitButtonEnabled
  /\ user # NoUser
  /\ Len(inflight) < MaxInFlight
  /\ inflight' = StartSubmit(selectedAnswers)
  /\ UNCHANGED <<user, dbVars, loading, exam, currentQuestion,
                 selectedAnswers, timeLeft, examSubmitted, score, error, g, pg>>

\* The catch block of handleSubmit: the message of the write that failed.
SubmitFailed(i) ==
  /\ error' = inflight[i].pc
  /\ inflight' = RemoveAt(inflight, i)

\* AttemptInsertOk with user_id and exam_id swapped in the row.
AttemptInsertOkSwappedIds(i) ==
  /\ inflight[i].pc = "attempt"
  /\ attempts' = Append(attempts,
       [user_id |-> exam.id, exam_id |-> user, course_id |-> "c1",
        score |-> inflight[i].score, passed |-> inflight[i].passed,
        answers |-> inflight[i].answers])
  /\ score' = inflight[i].score
  /\ examSubmitted' = TRUE
  /\ inflight' = IF inflight[i].passed
                 THEN [inflight EXCEPT ![i].pc = "enrollment"]
                 ELSE RemoveAt(inflight, i)
  /\ UNCHANGED <<user, dbExams, enrollment, certificates, loading, exam,
                 currentQuestion, selectedAnswers, timeLeft, error, g, pg>>

\* AttemptInsertOk without the test of passed before the two further writes.
AttemptInsertOkIgnoringPassed(i) ==
  /\ inflight[i].pc = "attempt"
  /\ attempts' = Append(attempts,
       [user_id |-> user, exam_id |-> exam.id, course_id |-> "c1",
        score |-> inflight[i].score, passed |-> inflight[i].passed,
        answers |-> inflight[i].answers])
  /\ score' = inflight[i].score
  /\ examSubmitted' = TRUE
  /\ inflight' = [inflight EXCEPT ![i].pc = "enrollment"]
  /\ UNCHANGED <<user, dbExams, enrollment, certificates, loading, exam,
                 currentQuestion, selectedAnswers, timeLeft, error, g, pg>>

\* The attempt insert succeeded: the row exists, the result is shown and,
\* when passed, the enrollment update is sent.
AttemptInsertOk(i) ==
  /\ inflight[i].pc = "attempt"
  /\ attempts' = Append(attempts,
       [user_id |-> user, exam_id |-> exam.id, course_id |-> "c1",
        score |-> inflight[i].score, passed |-> inflight[i].passed,
        answers |-> inflight[i].answers])
  /\ score' = inflight[i].score
  /\ examSubmitted' = TRUE
  /\ inflight' = IF inflight[i].passed
                 THEN [inflight EXCEPT ![i].pc = "enrollment"]
                 ELSE RemoveAt(inflight, i)
  /\ UNCHANGED <<user, dbExams, enrollment, certificates, loading, exam,
                 currentQuestion, selectedAnswers, timeLeft, error, g, pg>>

AttemptInsertError(i) ==
  /\ inflight[i].pc = "attempt"
  /\ SubmitFailed(i)
  /\ UNCHANGED <<user, dbVars, loading, exam, currentQuestion,
                 selectedAnswers, timeLeft, examSubmitted, score, g, pg>>

\* The enrollment update returned without error: the rows the policy lets
\* the user update are marked completed; the certificate insert is sent.
EnrollmentUpdateOk(i) ==
  /\ inflight[i].pc = "enrollment"
  /\ enrollment' =
       IF enrollment # NoEnrollment /\ EnrollmentsUpdatePolicy(user, enrollment)
       THEN [status |-> "completed", progress |-> 100]
       ELSE enrollment
  /\ inflight' = [inflight EXCEPT ![i].pc = "certificate"]
  /\ UNCHANGED <<user, dbExams, attempts, certificates, loading, exam,
                 currentQuestion, selectedAnswers, timeLeft, examSubmitted,
                 score, error, g, pg>>

EnrollmentUpdateError(i) ==
  /\ inflight[i].pc = "enrollment"
  /\ SubmitFailed(i)
  /\ UNCHANGED <<user, dbVars, loading, exam, currentQuestion,
                 selectedAnswers, timeLeft, examSubmitted, score, g, pg>>

\* The certificate insert succeeded.
CertificateInsertOk(i) ==
  /\ inflight[i].pc = "certificate"
  /\ certificates' = Append(certificates,
       [user_id |-> user, course_id |-> "c1", exam_id |-> exam.id,
        score |-> inflight[i].score])
  /\ inflight' = RemoveAt(inflight, i)
  /\ UNCHANGED <<user, dbExams, attempts, enrollment, loading, exam,
                 currentQuestion, selectedAnswers, timeLeft, examSubmitted,
                 score, error, g, pg>>

CertificateInsertError(i) ==
  /\ inflight[i].pc = "certificate"
  /\ SubmitFailed(i)
  /\ UNCHANGED <<user, dbVars, loading, exam, currentQuestion,
                 selectedAnswers, timeLeft, examSubmitted, score, g, pg>>

\* The certificate insert is refused because a row of the same user and
\* course exists (the store's unique-violation answer): handleSubmit treats
\* it like any other certificateError.
CertificateInsertDuplicate(i) ==
  /\ inflight[i].pc = "certificate"
  /\ \E k \in DOMAIN certificates :
       certificates[k].user_id = user /\ certificates[k].course_id = "c1"
  /\ error' = "duplicate"
  /\ inflight' = RemoveAt(inflight, i)
  /\ UNCHANGED <<user, dbVars, loading, exam, currentQuestion,
                 selectedAnswers, timeLeft, examSubmitted, score, g, pg>>

Init == SessionInit /\ g = GIdle /\ pg = PgIdle

Next ==
  \/ FetchExamOk
  \/ FetchExamError
  \/ Tick
  \/ SelectAnswer
  \/ NextQuestion
  \/ PreviousQuestion
  \/ ClickSubmit
  \/ \E i \in DOMAIN inflight : AttemptInsertOk(i)
  \/ \E i \in DOMAIN inflight : AttemptInsertError(i)
  \/ \E i \in DOMAIN inflight : EnrollmentUpdateOk(i)
  \/ \E i \in DOMAIN inflight : EnrollmentUpdateError(i)
  \/ \E i \in DOMAIN inflight : CertificateInsertOk(i)
  \/ \E i \in DOMAIN inflight : CertificateInsertError(i)
  \/ \E i \in DOMAIN inflight : CertificateInsertDuplicate(i)

Spec == Init /\ [][Next]_vars

(***************************************************************************)
(* The pipeline from exam creation to grading, run on its own: a form is   *)
(* stored by one of the flows, fetched, answered through                   *)
(* handleAnswerSelect with any arguments, and graded.                      *)
(***************************************************************************)

\* The correct answers a stored question may carry.  The creation forms
\* designate one of the options; a row written past the forms holds any
\* number its column admits, the one CourseExam uses for "no selection"
\* included.
StoredIndexes(flow) ==
  IF flow = "indexed" THEN OptionIndexes \cup {NoSelection} ELSE OptionIndexes

PipelineExamForms(flow) ==
  FormsOf(flow, PointValues, StoredIndexes(flow), PassingScores)

NoCall == [called |-> FALSE, prev |-> <<>>, questionIndex |-> 0, answerIndex |-> 0]
NoResult == [score |-> Num(0), passed |-> FALSE, totalScore |-> 0, totalPoints |-> 0]

PipelineInit ==
  /\ \E flow \in Flows : \E form \in PipelineExamForms(flow) :
       g = [stage |-> "form", flow |-> flow, form |-> form, exam |-> NoExam,
            payload |-> NoExam, answers |-> <<>>, call |-> NoCall,
            result |-> NoResult]
  /\ user = "s1"
  /\ dbExams = <<>>
  /\ attempts = <<>>
  /\ enrollment = NoEnrollment
  /\ certificates = <<>>
  /\ loading = TRUE
  /\ exam = NoExam
  /\ currentQuestion = 0
  /\ selectedAnswers = <<>>
  /\ timeLeft = Null
  /\ examSubmitted = FALSE
  /\ score = Num(0)
  /\ error = NoError
  /\ inflight = <<>>
  /\ pg = PgIdle

\* ExamCreator.handleSubmit stores the exam and its questions.
PipelineCreate ==
  /\ g.stage = "form"
  /\ g' = [g EXCEPT !.stage = "stored", !.exam = StoredExam(g.form, g.flow)]
  /\ UNCHANGED <<sessionVars, pg>>

\* fetchExam delivers the payload and the empty answer vector.
PipelineLoad ==
  /\ g.stage = "stored"
  /\ g' = [g EXCEPT !.stage = "loaded", !.payload = ExamPayload(g.exam),
                    !.answers = InitialAnswers(Len(g.exam.questions))]
  /\ UNCHANGED <<sessionVars, pg>>

\* handleAnswerSelect(questionIndex, answerIndex), in or out of range.
PipelineSelect ==
  /\ g.stage = "loaded"
  /\ \E questionIndex \in -1 .. MaxQuestions, answerIndex \in -1 .. NumOptions :
       g' = [g EXCEPT
               !.answers = HandleAnswerSelect(g.answers, questionIndex, answerIndex),
               !.call = [called |-> TRUE, prev |-> g.answers,
                         questionIndex |-> questionIndex,
                         answerIndex |-> answerIndex]]
  /\ UNCHANGED <<sessionVars, pg>>

\* The scoring of handleSubmit.
PipelineGrade ==
  /\ g.stage = "loaded"
  /\ g' = [g EXCEPT
             !.stage = "graded",
             !.result = [score |-> Grade(g.payload, g.answers).score,
                         passed |-> Grade(g.payload, g.answers).passed,
                         totalScore |-> TotalScore(g.payload.questions, g.answers),
                         totalPoints |-> TotalPoints(g.payload.questions)]]
  /\ UNCHANGED <<sessionVars, pg>>

PipelineNext == PipelineCreate \/ PipelineLoad \/ PipelineSelect \/ PipelineGrade

Pipeline == PipelineInit /\ [][PipelineNext]_vars

(***************************************************************************)
(* The enrollments table of the first migration under row-level security:  *)
(* requests sent with an account's credentials, or with none               *)
(***************************************************************************)

Accounts == {"s1", "s2", "i1", "i2"}
Courses == {"c1", "c2"}
\* profiles.role of an account.
ProfileRole(uid) == IF uid \in {"i1", "i2"} THEN "instructor" ELSE "student"
\* auth.uid() of a request: an account, or none for the anon role.
Requesters == Accounts \cup {NoUser}

\* The rows a request may try to insert.
EnrollmentRequests ==
  [user_id : Accounts, course_id : Courses,
   status : {"enrolled", "completed", "in_progress"}, progress : {0}]

\* CHECK constraints of the table.
EnrollmentsCheck(row) ==
  /\ row.status \in {"enrolled", "completed", "dropped"}
  /\ row.progress >= 0 /\ row.progress <= 100

\* A table without the uniqueness constraint.
EnrollmentsNotUnique(table, row) == TRUE

\* UNIQUE(user_id, course_id).
EnrollmentsUnique(table, row) ==
  \A r \in table : ~(r.user_id = row.user_id /\ r.course_id = row.course_id)

\* A policy that lets every authenticated request see every row, as the
\* one on courses does.
EnrollmentsSelectOpen(uid, row) == uid # NoUser

\* "Students can view their own enrollments": FOR SELECT TO authenticated
\* USING (user_id = auth.uid()).
EnrollmentsSelectPolicy(uid, row) == uid # NoUser /\ row.user_id = uid

\* "Students can enroll in courses": FOR INSERT TO authenticated WITH CHECK
\* (user_id = auth.uid() AND the requester's profile has role 'student').
EnrollmentsInsertPolicy(uid, row) ==
  /\ uid # NoUser
  /\ row.user_id = uid
  /\ ProfileRole(uid) = "student"

NoRead == [done |-> FALSE, by |-> NoUser, rows |-> {}, table |-> {}]
NoEnroll ==
  [done |-> FALSE, by |-> NoUser, course_id |-> "none", had |-> FALSE,
   ok |-> FALSE]

\* The store admits the insert of row requested by uid.
EnrollmentInsertAdmitted(uid, row, table) ==
  /\ EnrollmentsInsertPolicy(uid, row)
  /\ EnrollmentsCheck(row)
  /\ EnrollmentsUnique(table, row)

\* The row each handleEnroll (AllCourses, CourseView, CourseViewer) sends.
EnrollmentOf(uid, courseId) ==
  [user_id |-> uid, course_id |-> courseId, status |-> "in_progress",
   progress |-> 0]

PoliciesInit ==
  /\ pg = [stage |-> "tables", enrollments |-> {}, read |-> NoRead,
           enroll |-> NoEnroll]
  /\ g = GIdle
  /\ user = NoUser
  /\ dbExams = <<>>
  /\ attempts = <<>>
  /\ enrollment = NoEnrollment
  /\ certificates = <<>>
  /\ loading = TRUE
  /\ exam = NoExam
  /\ currentQuestion = 0
  /\ selectedAnswers = <<>>
  /\ timeLeft = Null
  /\ examSubmitted = FALSE
  /\ score = Num(0)
  /\ error = NoError
  /\ inflight = <<>>

\* insert into enrollments: the row is added when the policy, the checks
\* and the uniqueness constraint admit it.
PgInsertEnrollment ==
  /\ pg.stage = "tables"
  /\ \E uid \in Requesters, row \in EnrollmentRequests :
       pg' = [pg EXCEPT !.enrollments =
                IF EnrollmentInsertAdmitted(uid, row, pg.enrollments)
                THEN @ \cup {row} ELSE @]
  /\ UNCHANGED <<sessionVars, g>>

\* handleEnroll of a signed-in account: the insert of its row.  AllCourses
\* first looks the row up and sends nothing when it finds one; the other
\* two send the insert at once.
HandleEnroll ==
  /\ pg.stage = "tables"
  /\ \E uid \in Accounts, courseId \in Courses :
       LET row == EnrollmentOf(uid, courseId)
           ok == EnrollmentInsertAdmitted(uid, row, pg.enrollments)
       IN pg' = [pg EXCEPT
                   !.enrollments = IF ok THEN @ \cup {row} ELSE @,
                   !.enroll =
                     [done |-> TRUE, by |-> uid, course_id |-> courseId,
                      had |-> ~EnrollmentsUnique(pg.enrollments, row),
                      ok |-> ok]]
  /\ UNCHANGED <<sessionVars, g>>

\* select from enrollments: the rows the policy shows the requester.
PgSelectEnrollments ==
  /\ pg.stage = "tables"
  /\ \E uid \in Requesters :
       pg' = [pg EXCEPT !.read =
                [done |-> TRUE, by |-> uid,
                 rows |-> {r \in pg.enrollments : EnrollmentsSelectPolicy(uid, r)},
                 table |-> pg.enrollments]]
  /\ UNCHANGED <<sessionVars, g>>

PoliciesNext == PgInsertEnrollment \/ PgSelectEnrollments \/ HandleEnroll

Policies == PoliciesInit /\ [][PoliciesNext]_vars

(***************************************************************************)
(* The courses and course_videos tables under row-level security           *)
(***************************************************************************)

\* The component state when no exam session is part of the run.
NoSession ==
  /\ g = GIdle
  /\ user = NoUser
  /\ dbExams = <<>>
  /\ attempts = <<>>
  /\ enrollment = NoEnrollment
  /\ certificates = <<>>
  /\ loading = TRUE
  /\ exam = NoExam
  /\ currentQuestion = 0
  /\ selectedAnswers = <<>>
  /\ timeLeft = Null
  /\ examSubmitted = FALSE
  /\ score = Num(0)
  /\ error = NoError
  /\ inflight = <<>>

CourseRows == [id : Courses, instructor_id : Accounts]
VideoIds == {"v1", "v2"}
VideoRows == [id : VideoIds, course_id : Courses]
\* The enrollments rows during the run: s1 is enrolled in c1 only.
Enrolled == {[user_id |-> "s1", course_id |-> "c1"]}

\* "Anyone can view courses": FOR SELECT TO authenticated USING (true).
CoursesSelectPolicy(uid, row) == uid # NoUser

\* "Instructors can create courses": FOR INSERT TO authenticated WITH CHECK
\* (the requester's profile has role 'instructor').
CoursesInsertPolicy(uid, row) ==
  uid # NoUser /\ ProfileRole(uid) = "instructor"

\* No policy FOR UPDATE or FOR DELETE is created on courses.
CoursesUpdatePolicy(uid, row) == FALSE
CoursesDeletePolicy(uid, row) == FALSE

\* "Instructors can manage their course videos": FOR ALL USING (EXISTS a
\* course the requester can see with courses.id = course_videos.course_id
\* and courses.instructor_id = auth.uid()).
VideosManagePolicy(uid, row, courses) ==
  \E c \in courses :
    /\ CoursesSelectPolicy(uid, c)
    /\ c.id = row.course_id
    /\ c.instructor_id = uid

\* "Students can view enrolled course videos": FOR SELECT USING (EXISTS an
\* enrollments row the requester can see, of the video's course and of the
\* requester).
VideosEnrolledPolicy(uid, row) ==
  \E e \in Enrolled :
    /\ uid # NoUser /\ e.user_id = uid
    /\ e.course_id = row.course_id

\* The rows of course_videos a select returns: permissive policies are
\* combined with OR.
VideosVisible(uid, videos, courses) ==
  {v \in videos : VideosManagePolicy(uid, v, courses) \/ VideosEnrolledPolicy(uid, v)}

NoRow == [id |-> "none"]
NoRequest ==
  [op |-> "none", by |-> NoUser, old |-> NoRow, new |-> NoRow, ok |-> FALSE,
   rows |-> {}]

CoursePoliciesInit ==
  /\ pg = [stage |-> "courses", courses |-> {}, videos |-> {},
           last |-> NoRequest]
  /\ NoSession

\* insert into courses.
PgInsertCourse ==
  /\ pg.stage = "courses"
  /\ \E uid \in Requesters, row \in CourseRows :
       LET ok == /\ CoursesInsertPolicy(uid, row)
                 /\ \A c \in pg.courses : c.id # row.id
       IN pg' = [pg EXCEPT
                   !.courses = IF ok THEN @ \cup {row} ELSE @,
                   !.last = [op |-> "insert course", by |-> uid, old |-> NoRow,
                             new |-> row, ok |-> ok, rows |-> {}]]
  /\ UNCHANGED <<sessionVars, g>>

\* update courses ... where id = c.id, as CourseForm sends in edit mode.
PgUpdateCourse ==
  /\ pg.stage = "courses"
  /\ \E uid \in Requesters, c \in pg.courses, owner \in Accounts :
       LET row == [c EXCEPT !.instructor_id = owner]
           ok == CoursesSelectPolicy(uid, c) /\ CoursesUpdatePolicy(uid, c)
       IN pg' = [pg EXCEPT
                   !.courses = IF ok THEN (@ \ {c}) \cup {row} ELSE @,
                   !.last = [op |-> "update course", by |-> uid, old |-> c,
                             new |-> row, ok |-> ok, rows |-> {}]]
  /\ UNCHANGED <<sessionVars, g>>

\* delete from courses where id = c.id, as handleDelete sends; the videos
\* of a deleted course go with it (ON DELETE CASCADE).
PgDeleteCourse ==
  /\ pg.stage = "courses"
  /\ \E uid \in Requesters, c \in pg.courses :
       LET ok == CoursesSelectPolicy(uid, c) /\ CoursesDeletePolicy(uid, c)
       IN pg' = [pg EXCEPT
                   !.courses = IF ok THEN @ \ {c} ELSE @,
                   !.videos = IF ok THEN {v \in @ : v.course_id # c.id} ELSE @,
                   !.last = [op |-> "delete course", by |-> uid, old |-> c,
                             new |-> NoRow, ok |-> ok, rows |-> {}]]
  /\ UNCHANGED <<sessionVars, g>>

\* insert into course_videos: the policy's expression is the check of the
\* new row; course_id references courses.
PgInsertVideo ==
  /\ pg.stage = "courses"
  /\ \E uid \in Requesters, row \in VideoRows :
       LET ok == /\ VideosManagePolicy(uid, row, pg.courses)
                 /\ \E c \in pg.courses : c.id = row.course_id
                 /\ \A v \in pg.videos : v.id # row.id
       IN pg' = [pg EXCEPT
                   !.videos = IF ok THEN @ \cup {row} ELSE @,
                   !.last = [op |-> "insert video", by |-> uid, old |-> NoRow,
                             new |-> row, ok |-> ok, rows |-> {}]]
  /\ UNCHANGED <<sessionVars, g>>

\* update course_videos: the old row must pass USING and the new row the
\* same expression as its check.
PgUpdateVideo ==
  /\ pg.stage = "courses"
  /\ \E uid \in Requesters, v \in pg.videos, cid \in Courses :
       LET row == [v EXCEPT !.course_id = cid]
           ok == /\ VideosManagePolicy(uid, v, pg.courses)
                 /\ VideosManagePolicy(uid, row, pg.courses)
                 /\ \E c \in pg.courses : c.id = cid
       IN pg' = [pg EXCEPT
                   !.videos = IF ok THEN (@ \ {v}) \cup {row} ELSE @,
                   !.last = [op |-> "update video", by |-> uid, old |-> v,
                             new |-> row, ok |-> ok, rows |-> {}]]
  /\ UNCHANGED <<sessionVars, g>>

\* delete from course_videos.
PgDeleteVideo ==
  /\ pg.stage = "courses"
  /\ \E uid \in Requesters, v \in pg.videos :
       LET ok == VideosManagePolicy(uid, v, pg.courses)
       IN pg' = [pg EXCEPT
                   !.videos = IF ok THEN @ \ {v} ELSE @,
                   !.last = [op |-> "delete video", by |-> uid, old |-> v,
                             new |-> NoRow, ok |-> ok, rows |-> {}]]
  /\ UNCHANGED <<sessionVars, g>>

\* select from course_videos.
PgSelectVideos ==
  /\ pg.stage = "courses"
  /\ \E uid \in Requesters :
       pg' = [pg EXCEPT
                !.last = [op |-> "select videos", by |-> uid, old |-> NoRow,
                          new |-> NoRow, ok |-> TRUE,
                          rows |-> VideosVisible(uid, pg.videos, pg.courses)]]
  /\ UNCHANGED <<sessionVars, g>>

CoursePoliciesNext ==
  \/ PgInsertCourse
  \/ PgUpdateCourse
  \/ PgDeleteCourse
  \/ PgInsertVideo
  \/ PgUpdateVideo
  \/ PgDeleteVideo
  \/ PgSelectVideos

CoursePolicies == CoursePoliciesInit /\ [][CoursePoliciesNext]_vars

\* ---------------------------------------------------------------------
\* Saving a course: CourseForm.handleSubmit and EditCourse.handleSubmit,
\* each a chain of requests (course row, delete of the course's videos,
\* insert of the form's videos) against course_videos under its policies.
\* ---------------------------------------------------------------------

MaxSaves == 2
VideoTitles == {"a"}
\* A form's video list: titles, "" for an entry the user left blank.
MaxVideos == 2
VideoForms == SeqsOf(VideoTitles \cup {""}, 0, MaxVideos)

\* CourseForm: formData.videos.map((video, index) => ({..., order_index:
\* index + 1})).
CourseFormVideoData(courseId, form) ==
  [i \in DOMAIN form |->
     [course_id |-> courseId, title |-> form[i], order_index |-> i]]

\* EditCourse: the entries with a title and a url, numbered from 1 after
\* the filter.
ValidVideoData(courseId, form) ==
  LET kept == SelectSeq(form, LAMBDA t : t # "")
  IN [i \in DOMAIN kept |->
        [course_id |-> courseId, title |-> kept[i], order_index |-> i]]

SaveInit ==
  /\ NoSession
  /\ \E uid \in {"i1", "i2"} :
       pg = [stage |-> "save", by |-> uid,
             courses |-> {[id |-> "c1", instructor_id |-> "i1"]},
             videos |-> <<>>, saves |-> <<>>, formLoading |-> FALSE,
             saved |-> {}]

\* EditCourse.handleSubmit up to its first request; the form's button is
\* never disabled, so a second submit can start while one is in flight.
EditCourseSubmit ==
  /\ pg.stage = "save"
  /\ Len(pg.saves) < MaxSaves
  /\ \E form \in VideoForms :
       pg' = [pg EXCEPT !.saves = Append(@,
                [comp |-> "EditCourse", mode |-> "edit", pc |-> "course",
                 course_id |-> "c1",
                 rows |-> ValidVideoData("c1", form)])]
  /\ UNCHANGED <<sessionVars, g>>

\* CourseForm.handleSubmit up to its first request: it returns while
\* loading is set, throws on an empty video list, and sets loading.
CourseFormSubmit ==
  /\ pg.stage = "save"
  /\ ~pg.formLoading
  /\ Len(pg.saves) < MaxSaves
  /\ \E form \in VideoForms, mode \in {"create", "edit"} :
       /\ Len(form) > 0
       /\ mode = "create" => \A c \in pg.courses : c.id # "c2"
       /\ LET courseId == IF mode = "edit" THEN "c1" ELSE "c2"
          IN pg' = [pg EXCEPT
                      !.formLoading = TRUE,
                      !.saves = Append(@,
                        [comp |-> "CourseForm", mode |-> mode,
                         pc |-> "course", course_id |-> courseId,
                         rows |-> CourseFormVideoData(courseId, form)])]
  /\ UNCHANGED <<sessionVars, g>>

\* The end of a save: the entry leaves the list, CourseForm's finally
\* clears loading, and a save that did not throw is recorded.
SaveEnds(i, ok) ==
  [pg EXCEPT
     !.saves = RemoveAt(@, i),
     !.formLoading = IF pg.saves[i].comp = "CourseForm" THEN FALSE ELSE @,
     !.saved = IF ok THEN @ \cup {pg.saves[i].course_id} ELSE @]

\* The request on courses: an update affects no row and reports no error
\* (courses has no UPDATE policy); an insert is checked by the INSERT
\* policy and a refusal is thrown.
SaveCourseRow(i) ==
  /\ pg.stage = "save"
  /\ i \in DOMAIN pg.saves
  /\ pg.saves[i].pc = "course"
  /\ LET s == pg.saves[i]
         row == [id |-> s.course_id, instructor_id |-> pg.by]
     IN IF s.mode = "edit"
        THEN pg' = [pg EXCEPT !.saves[i].pc = "delete"]
        ELSE IF CoursesInsertPolicy(pg.by, row)
             THEN pg' = [pg EXCEPT !.courses = @ \cup {row},
                                   !.saves[i].pc = "insert"]
             ELSE pg' = SaveEnds(i, FALSE)
  /\ UNCHANGED <<sessionVars, g>>

\* delete from course_videos where course_id = id: the rows the manage
\* policy lets the requester see are removed, the others are left without
\* an error.  EditCourse ends here, successfully, when no entry is valid.
SaveDeleteVideos(i) ==
  /\ pg.stage = "save"
  /\ i \in DOMAIN pg.saves
  /\ pg.saves[i].pc = "delete"
  /\ LET s == pg.saves[i]
         left == SelectSeq(pg.videos, LAMBDA v :
                   ~(v.course_id = s.course_id
                     /\ VideosManagePolicy(pg.by, v, pg.courses)))
         ended == SaveEnds(i, TRUE)
     IN IF s.rows = <<>>
        THEN pg' = [ended EXCEPT !.videos = left]
        ELSE pg' = [pg EXCEPT !.videos = left, !.saves[i].pc = "insert"]
  /\ UNCHANGED <<sessionVars, g>>

\* insert into course_videos of the whole batch: every row must pass the
\* manage policy as its check, or the statement fails and the handler
\* throws.
SaveInsertVideos(i) ==
  /\ pg.stage = "save"
  /\ i \in DOMAIN pg.saves
  /\ pg.saves[i].pc = "insert"
  /\ LET s == pg.saves[i]
         ok == \A k \in DOMAIN s.rows :
                 VideosManagePolicy(pg.by, s.rows[k], pg.courses)
         ended == SaveEnds(i, ok)
     IN pg' = [ended EXCEPT !.videos = IF ok THEN @ \o s.rows ELSE @]
  /\ UNCHANGED <<sessionVars, g>>

SaveNext ==
  \/ EditCourseSubmit
  \/ CourseFormSubmit
  \/ \E i \in 1..MaxSaves : SaveCourseRow(i)
  \/ \E i \in 1..MaxSaves : SaveDeleteVideos(i)
  \/ \E i \in 1..MaxSaves : SaveInsertVideos(i)

CourseSave == SaveInit /\ [][SaveNext]_vars

\* ---------------------------------------------------------------------
\* Creating an exam: ExamCreator.handleSubmit (both definitions), a chain
\* of requests (insert into course_exams, insert into exam_questions,
\* and on a questions error a delete of the exam row).
\* ---------------------------------------------------------------------

MaxCreates == 2
MaxExamRows == 3

\* The owning instructor has full read/write on the Exam and Questions of
\* an owned course, resolved by joining up to the course.
ExamsManagePolicy(uid, row, courses) ==
  \E c \in courses :
    /\ c.id = row.course_id
    /\ c.instructor_id = uid

\* One exam per course is not enforced by the table: an insert is never
\* refused because the course already has an exam.
ExamsUnique(table, row) == TRUE

NoOutcome == [exam_id |-> 0, result |-> "none"]

CreationInit ==
  /\ NoSession
  /\ \E definition \in {1, 2} :
       pg = [stage |-> "exams", by |-> "i1", comp |-> definition,
             courses |-> {[id |-> "c1", instructor_id |-> "i1"]},
             exams |-> {}, withQuestions |-> {}, nextId |-> 1,
             creates |-> <<>>, formLoading |-> FALSE, formError |-> NoError,
             last |-> NoOutcome]

\* handleSubmit up to its first request.  The submit button is disabled
\* while loading is set.
CreatorSubmit ==
  /\ pg.stage = "exams"
  /\ ~pg.formLoading
  /\ Len(pg.creates) < MaxCreates
  /\ pg.nextId + Len(pg.creates) <= MaxExamRows
  /\ pg' = [pg EXCEPT !.formLoading = TRUE, !.formError = NoError,
                      !.creates = Append(@, [pc |-> "exam", exam_id |-> 0])]
  /\ UNCHANGED <<sessionVars, g>>

\* The second definition's effect: 15 seconds after loading was set it is
\* cleared and a message is shown; the requests in flight go on.
CreatorTimeout ==
  /\ pg.stage = "exams"
  /\ pg.comp = 2
  /\ pg.formLoading
  /\ pg' = [pg EXCEPT !.formLoading = FALSE, !.formError = "timeout"]
  /\ UNCHANGED <<sessionVars, g>>

\* The end of a handleSubmit: loading is cleared and the outcome noted.
CreationEnds(i, result, err) ==
  [pg EXCEPT !.creates = RemoveAt(@, i),
             !.formLoading = FALSE,
             !.formError = err,
             !.last = [exam_id |-> pg.creates[i].exam_id,
                       result |-> result]]

\* insert into course_exams ... select().single() returns the new row.
ExamInsertOk(i) ==
  /\ pg.stage = "exams"
  /\ i \in DOMAIN pg.creates
  /\ pg.creates[i].pc = "exam"
  /\ LET row == [id |-> pg.nextId, course_id |-> "c1"]
     IN /\ ExamsManagePolicy(pg.by, row, pg.courses)
        /\ ExamsUnique(pg.exams, row)
        /\ pg' = [pg EXCEPT !.exams = @ \cup {row},
                            !.nextId = @ + 1,
                            !.creates[i] = [pc |-> "questions",
                                            exam_id |-> row.id]]
  /\ UNCHANGED <<sessionVars, g>>

\* The exam insert returns an error: thrown, no row was written.
ExamInsertError(i) ==
  /\ pg.stage = "exams"
  /\ i \in DOMAIN pg.creates
  /\ pg.creates[i].pc = "exam"
  /\ pg' = CreationEnds(i, "exam error", "exam")
  /\ UNCHANGED <<sessionVars, g>>

\* insert into exam_questions of the whole batch succeeds: navigate.
QuestionsInsertOk(i) ==
  /\ pg.stage = "exams"
  /\ i \in DOMAIN pg.creates
  /\ pg.creates[i].pc = "questions"
  /\ LET ended == CreationEnds(i, "created", pg.formError)
     IN pg' = [ended EXCEPT !.withQuestions = @ \cup {pg.creates[i].exam_id}]
  /\ UNCHANGED <<sessionVars, g>>

\* The questions insert returns an error: the handler sends the delete of
\* the exam row and awaits it.
QuestionsInsertError(i) ==
  /\ pg.stage = "exams"
  /\ i \in DOMAIN pg.creates
  /\ pg.creates[i].pc = "questions"
  /\ pg' = [pg EXCEPT !.creates[i].pc = "cleanup"]
  /\ UNCHANGED <<sessionVars, g>>

\* delete from course_exams where id = the new row's id, then the throw
\* of the questions error.  The delete's result is not read: whether the
\* row was removed or the request failed, the handler goes on the same.
CleanupDelete(i) ==
  /\ pg.stage = "exams"
  /\ i \in DOMAIN pg.creates
  /\ pg.creates[i].pc = "cleanup"
  /\ \E deleted \in BOOLEAN :
       LET ended == CreationEnds(i, "questions error", "questions")
           gone == {e \in pg.exams :
                      /\ e.id = pg.creates[i].exam_id
                      /\ ExamsManagePolicy(pg.by, e, pg.courses)
                      /\ deleted}
       IN pg' = [ended EXCEPT !.exams = @ \ gone]
  /\ UNCHANGED <<sessionVars, g>>

CreationNext ==
  \/ CreatorSubmit
  \/ CreatorTimeout
  \/ \E i \in 1..MaxCreates : ExamInsertOk(i)
  \/ \E i \in 1..MaxCreates : ExamInsertError(i)
  \/ \E i \in 1..MaxCreates : QuestionsInsertOk(i)
  \/ \E i \in 1..MaxCreates : QuestionsInsertError(i)
  \/ \E i \in 1..MaxCreates : CleanupDelete(i)

ExamCreation == CreationInit /\ [][CreationNext]_vars

\* ---------------------------------------------------------------------
\* The auth store: signIn, signOut, refreshUserData, initializeAuth and
\* the auth-state-change listener.  user is the store's user; pg holds the
\* client's auth session, the profiles table and the calls in flight.
\* ---------------------------------------------------------------------

MaxRefreshes == 2
examVars ==
  <<dbExams, attempts, enrollment, certificates, loading, exam,
    currentQuestion, selectedAnswers, timeLeft, examSubmitted, score, error,
    inflight>>

\* "Users can read their own profile": FOR SELECT TO authenticated USING
\* (auth.uid() = id).
ProfilesSelectPolicy(uid, id) == uid # NoUser /\ uid = id
\* profiles has no INSERT policy: every insert is refused.
ProfilesInsertPolicy(uid, id) == FALSE

AuthInit ==
  /\ g = GIdle
  /\ user = NoUser
  /\ dbExams = <<>> /\ attempts = <<>> /\ enrollment = NoEnrollment
  /\ certificates = <<>> /\ loading = TRUE /\ exam = NoExam
  /\ currentQuestion = 0 /\ selectedAnswers = <<>> /\ timeLeft = Null
  /\ examSubmitted = FALSE /\ score = Num(0) /\ error = NoError
  /\ inflight = <<>>
  /\ \E stored \in {NoUser, "s1"}, hasProfile \in BOOLEAN :
       pg = [stage |-> "auth", session |-> stored,
             profiles |-> IF hasProfile THEN {"s1"} ELSE {},
             loading |-> FALSE, error |-> NoError, initialized |-> FALSE,
             refreshes |-> <<>>, signIn |-> FALSE, signOut |-> FALSE,
             signedOutEvent |-> FALSE, initCalled |-> FALSE,
             signedOut |-> FALSE]

\* A call of refreshUserData up to its first await (getSession).
StartRefresh(p) == [p EXCEPT !.refreshes = Append(@, [pc |-> "session",
                                                        uid |-> NoUser])]

\* initializeAuth: setLoading(true) and the call of refreshUserData.
InitializeAuth ==
  /\ pg.stage = "auth"
  /\ ~pg.initCalled
  /\ Len(pg.refreshes) < MaxRefreshes
  /\ pg' = [StartRefresh(pg) EXCEPT !.initCalled = TRUE, !.loading = TRUE]
  /\ UNCHANGED <<user, examVars, g>>

\* signIn up to signInWithPassword.
SignInStart ==
  /\ pg.stage = "auth"
  /\ ~pg.signIn
  /\ pg' = [pg EXCEPT !.signIn = TRUE, !.loading = TRUE, !.error = NoError,
                      !.signedOut = FALSE]
  /\ UNCHANGED <<user, examVars, g>>

\* signInWithPassword succeeds: the client holds a session and signIn
\* calls refreshUserData and, when it returns, clears loading (folded into
\* the refresh's end as loading is not read by any guard here).
SignInPasswordOk ==
  /\ pg.stage = "auth"
  /\ pg.signIn
  /\ Len(pg.refreshes) < MaxRefreshes
  /\ pg' = [StartRefresh(pg) EXCEPT !.signIn = FALSE, !.session = "s1",
                                    !.signedOut = FALSE, !.loading = FALSE]
  /\ UNCHANGED <<user, examVars, g>>

\* signInWithPassword returns an error: catch and finally.
SignInPasswordError ==
  /\ pg.stage = "auth"
  /\ pg.signIn
  /\ pg' = [pg EXCEPT !.signIn = FALSE, !.error = "sign in",
                      !.loading = FALSE]
  /\ user' = NoUser
  /\ UNCHANGED <<examVars, g>>

\* The listener on SIGNED_IN, TOKEN_REFRESHED or USER_UPDATED with a
\* session: it calls refreshUserData.
AuthStateChanged ==
  /\ pg.stage = "auth"
  /\ pg.session # NoUser
  /\ Len(pg.refreshes) < MaxRefreshes
  /\ pg' = StartRefresh(pg)
  /\ UNCHANGED <<user, examVars, g>>

\* The listener on SIGNED_OUT: setUser(null), setLoading(false),
\* setError(null).
AuthStateSignedOut ==
  /\ pg.stage = "auth"
  /\ pg.signedOutEvent
  /\ pg' = [pg EXCEPT !.signedOutEvent = FALSE, !.loading = FALSE,
                      !.error = NoError]
  /\ user' = NoUser
  /\ UNCHANGED <<examVars, g>>

\* refreshUserData after getSession: with a session the profile request
\* is sent for its user, without one the store's user is cleared.
RefreshGetSession(i) ==
  /\ pg.stage = "auth"
  /\ i \in DOMAIN pg.refreshes
  /\ pg.refreshes[i].pc = "session"
  /\ IF pg.session # NoUser
     THEN /\ pg' = [pg EXCEPT !.refreshes[i] = [pc |-> "profile",
                                                uid |-> pg.session]]
          /\ user' = user
     ELSE /\ pg' = [pg EXCEPT !.refreshes = RemoveAt(@, i)]
          /\ user' = NoUser
  /\ UNCHANGED <<examVars, g>>

\* The profile request, sent with the token held when it left, returns
\* the row: set({user: {id: userId, ...}}).
RefreshProfileOk(i) ==
  /\ pg.stage = "auth"
  /\ i \in DOMAIN pg.refreshes
  /\ pg.refreshes[i].pc = "profile"
  /\ pg.refreshes[i].uid \in pg.profiles
  /\ ProfilesSelectPolicy(pg.refreshes[i].uid, pg.refreshes[i].uid)
  /\ pg' = [pg EXCEPT !.refreshes = RemoveAt(@, i)]
  /\ user' = pg.refreshes[i].uid
  /\ UNCHANGED <<examVars, g>>

\* The profile request returns no row (PGRST116): getUser, and with a
\* user the insert of a profile, else the throw of the profile error.
RefreshProfileMissing(i) ==
  /\ pg.stage = "auth"
  /\ i \in DOMAIN pg.refreshes
  /\ pg.refreshes[i].pc = "profile"
  /\ pg.refreshes[i].uid \notin pg.profiles
  /\ IF pg.session # NoUser
     THEN /\ pg' = [pg EXCEPT !.refreshes[i].pc = "create"]
          /\ user' = user
     ELSE /\ pg' = [pg EXCEPT !.refreshes = RemoveAt(@, i),
                              !.error = "profile"]
          /\ user' = NoUser
  /\ UNCHANGED <<examVars, g>>

\* The profile request returns another error: catch.
RefreshProfileError(i) ==
  /\ pg.stage = "auth"
  /\ i \in DOMAIN pg.refreshes
  /\ pg.refreshes[i].pc = "profile"
  /\ pg' = [pg EXCEPT !.refreshes = RemoveAt(@, i), !.error = "profile"]
  /\ user' = NoUser
  /\ UNCHANGED <<examVars, g>>

\* The insert of the missing profile: admitted, the store's user is set;
\* refused, the error is thrown and caught.
RefreshCreateProfile(i) ==
  /\ pg.stage = "auth"
  /\ i \in DOMAIN pg.refreshes
  /\ pg.refreshes[i].pc = "create"
  /\ IF ProfilesInsertPolicy(pg.refreshes[i].uid, pg.refreshes[i].uid)
     THEN /\ pg' = [pg EXCEPT !.refreshes = RemoveAt(@, i),
                              !.profiles = @ \cup {pg.refreshes[i].uid}]
          /\ user' = pg.refreshes[i].uid
     ELSE /\ pg' = [pg EXCEPT !.refreshes = RemoveAt(@, i),
                              !.error = "profile"]
          /\ user' = NoUser
  /\ UNCHANGED <<examVars, g>>

\* signOut up to supabase.auth.signOut().
SignOutStart ==
  /\ pg.stage = "auth"
  /\ ~pg.signOut
  /\ pg' = [pg EXCEPT !.signOut = TRUE, !.loading = TRUE, !.error = NoError]
  /\ UNCHANGED <<user, examVars, g>>

\* supabase.auth.signOut() succeeds: the client's session is gone, the
\* SIGNED_OUT event is raised and the store is cleared.
SignOutOk ==
  /\ pg.stage = "auth"
  /\ pg.signOut
  /\ pg' = [pg EXCEPT !.signOut = FALSE, !.session = NoUser,
                      !.signedOutEvent = TRUE, !.error = NoError,
                      !.loading = FALSE, !.initialized = FALSE,
                      !.signedOut = ~pg.signIn]
  /\ user' = NoUser
  /\ UNCHANGED <<examVars, g>>

\* supabase.auth.signOut() returns an error: catch.
SignOutError ==
  /\ pg.stage = "auth"
  /\ pg.signOut
  /\ pg' = [pg EXCEPT !.signOut = FALSE, !.error = "sign out",
                      !.loading = FALSE]
  /\ UNCHANGED <<user, examVars, g>>

AuthNext ==
  \/ InitializeAuth
  \/ SignInStart
  \/ SignInPasswordOk
  \/ SignInPasswordError
  \/ AuthStateChanged
  \/ AuthStateSignedOut
  \/ \E i \in 1..MaxRefreshes : RefreshGetSession(i)
  \/ \E i \in 1..MaxRefreshes : RefreshProfileOk(i)
  \/ \E i \in 1..MaxRefreshes : RefreshProfileMissing(i)
  \/ \E i \in 1..MaxRefreshes : RefreshProfileError(i)
  \/ \E i \in 1..MaxRefreshes : RefreshCreateProfile(i)
  \/ SignOutStart
  \/ SignOutOk
  \/ SignOutError

AuthStore == AuthInit /\ [][AuthNext]_vars

\* The timer fires while it is installed and every request sent is
\* answered; nothing obliges the student to act.
FairSpec ==
  /\ Spec
  /\ WF_vars(Tick)
  /\ WF_vars(FetchExamOk \/ FetchExamError)
  /\ WF_vars(\E i \in DOMAIN inflight :
               \/ AttemptInsertOk(i) \/ AttemptInsertError(i)
               \/ EnrollmentUpdateOk(i) \/ EnrollmentUpdateError(i)
               \/ CertificateInsertOk(i) \/ CertificateInsertError(i)
               \/ CertificateInsertDuplicate(i))

(***************************************************************************)
(* Claims                                                                  *)
(***************************************************************************)

\* C1: submit() is one-shot: however often it is invoked in a session, at
\* most one exam_attempts row is written and the invocations agree on the
\* score and on passed.
C1_SubmitIsOneShot ==
  /\ Len(attempts) <= 1
  /\ \A i, j \in DOMAIN inflight :
       /\ inflight[i].score = inflight[j].score
       /\ inflight[i].passed = inflight[j].passed

\* C2: once the countdown of a session in progress is at zero, the session
\* eventually leaves the in-progress state (the submission path has run).
C2_TimeoutSubmits ==
  (timeLeft = 0 /\ View = "Exam" /\ user # NoUser) ~> (View # "Exam")

\* C3: at most one certificates row exists for an (account, course) pair.
C3_OneCertificatePerCourse ==
  \A i, j \in DOMAIN certificates :
    (/\ certificates[i].user_id = certificates[j].user_id
     /\ certificates[i].course_id = certificates[j].course_id) => i = j

\* C4: for an exam whose points sum to zero, submit() fails: no attempt is
\* persisted and no result is produced.
C4_DegenerateExamFails ==
  (exam # NoExam /\ TotalPoints(exam.questions) = 0)
    => (attempts = <<>> /\ ~examSubmitted)

\* C5: selectAnswer with a question index or a choice index out of range
\* leaves the answer vector, its length and every slot, unchanged.
C5_OutOfRangeSelectIsNoOp ==
  (/\ g.stage # "idle"
   /\ g.call.called
   /\ \/ g.call.questionIndex \notin 0 .. Len(g.call.prev) - 1
      \/ g.call.answerIndex \notin OptionIndexes)
    => g.answers = g.call.prev

\* Two stored exams that differ at most in their answer keys.
SameButKeys(e1, e2) ==
  /\ e1.id = e2.id /\ e1.duration = e2.duration
  /\ e1.passing_score = e2.passing_score
  /\ Len(e1.questions) = Len(e2.questions)
  /\ \A i \in DOMAIN e1.questions :
       /\ e1.questions[i].options = e2.questions[i].options
       /\ e1.questions[i].points = e2.questions[i].points
       /\ e1.questions[i].order_index = e2.questions[i].order_index

\* C6: the payload held by the session of a student or an anonymous actor
\* (the model has no session of the owning instructor) carries no
\* question's correct answer, and is the same for two exams that differ
\* only in their answer keys.
C6_PayloadWithholdsAnswerKey ==
  exam # NoExam =>
    /\ \A i \in DOMAIN exam.questions :
         "correct_answer" \notin DOMAIN exam.questions[i]
    /\ \A e2 \in SessionExams :
         SameButKeys(dbExams[1], e2) => ExamPayload(e2) = exam

\* The points of the questions whose selection is the stored answer index.
RECURSIVE EarnedPoints(_, _, _)
EarnedPoints(questions, answers, i) ==
  IF i > Len(questions) THEN 0
  ELSE EarnedPoints(questions, answers, i + 1)
       + (IF /\ i <= Len(answers)
             /\ questions[i].correct_answer.t = "number"
             /\ answers[i] = questions[i].correct_answer.v
          THEN questions[i].points ELSE 0)

\* C7: with positive total points, score is 100 * earned / total rounded to
\* the nearest integer (halves up) and passed is score >= passing_score.
C7_ScoreIsRoundedPercentage ==
  (g.stage = "graded" /\ g.result.totalPoints > 0) =>
    LET E == EarnedPoints(g.payload.questions, g.answers, 1)
        T == g.result.totalPoints
        s == g.result.score
    IN /\ ~s.nan
       /\ 2 * T * s.v <= 200 * E + T
       /\ 200 * E + T < 2 * T * (s.v + 1)
       /\ g.result.passed = (s.v >= g.payload.passing_score)

\* The points of the questions on which the student chose the option the
\* instructor designated as correct.
RECURSIVE DesignatedPoints(_, _, _)
DesignatedPoints(form, answers, i) ==
  IF i > Len(form.questions) THEN 0
  ELSE DesignatedPoints(form, answers, i + 1)
       + (IF i <= Len(answers) /\ answers[i] = form.questions[i].designated
          THEN form.questions[i].points ELSE 0)

\* C8: for an exam created through either creation flow, the student is
\* credited the points of every question on which the student selected the
\* option designated as correct.
C8_DesignatedOptionIsCredited ==
  (g.stage = "graded" /\ g.flow \in {"creator1", "creator2"})
    => g.result.totalScore = DesignatedPoints(g.form, g.answers, 1)

\* C9: when the attempt was written and passed, a failure of the
\* enrollment update or of the certificate insert leaves the session
\* showing the result of the persisted attempt.
C9_SideEffectFailureKeepsResult ==
  error \in {"enrollment", "certificate"}
    => /\ View = "Result"
       /\ \E i \in DOMAIN attempts : attempts[i].passed /\ attempts[i].score = score

\* C10: when the attempt insert fails the session shows the failure, no
\* attempt means no certificate and no completed enrollment, and once
\* nothing is in flight submit can be invoked again.
C10_AttemptFailureIsRetryable ==
  error = "attempt" =>
    /\ View = "Error"
    /\ attempts = <<>> => (certificates = <<>> /\ enrollment.status # "completed")
    /\ inflight = <<>> => (SubmitButtonEnabled /\ user # NoUser)

\* C11: when the certificate insert of a passing submission is refused
\* because a certificate of the same account and course exists, the session
\* shows the result and no error.
C11_DuplicateCertificateIsSuccess ==
  error = "duplicate" => View = "Result"

\* Some invocation's enrollment update has returned without error.
EnrollmentUpdateReturned ==
  \/ \E i \in DOMAIN inflight : inflight[i].pc = "certificate"
  \/ certificates # <<>>
  \/ error \in {"certificate", "duplicate"}

\* C12: once the enrollment update of a passing submission by an enrolled
\* student has returned, the student's enrollment row is completed with
\* progress 100.
C12_PassedMarksEnrollmentCompleted ==
  (enrollment # NoEnrollment /\ EnrollmentUpdateReturned)
    => (enrollment.status = "completed" /\ enrollment.progress = 100)

\* C13: every certificates row has an exam_attempts row of the same account
\* and course with passed = TRUE and the same score, and there are no more
\* certificates than passing attempts.
C13_CertificateHasPassingAttempt ==
  /\ \A k \in DOMAIN certificates :
       \E a \in DOMAIN attempts :
         /\ attempts[a].user_id = certificates[k].user_id
         /\ attempts[a].course_id = certificates[k].course_id
         /\ attempts[a].passed
         /\ attempts[a].score = certificates[k].score
  /\ Len(certificates) <= Cardinality({a \in DOMAIN attempts : attempts[a].passed})

\* A certificate was issued in a session that also wrote a failing attempt.
C13_Witness ==
  /\ certificates # <<>>
  /\ \E a \in DOMAIN attempts : ~attempts[a].passed

\* C14: every certificates row belongs to an account that holds an
\* enrollments row for the course.
C14_CertificateHasEnrollment ==
  \A k \in DOMAIN certificates :
    certificates[k].user_id = user => enrollment # NoEnrollment

\* The session states of the specification read off the component: loaded,
\* no error, not submitted, and no handleSubmit suspended at a write.
InProgress == View = "Exam" /\ inflight = <<>>

\* C15: once the exam is loaded, a step changes the remaining time or the
\* answer vector only when it starts in the in-progress state (not while a
\* submission is in flight, nor after the result or an error is shown).
C15_EditsOnlyInProgress ==
  [][(~loading /\ (timeLeft' # timeLeft \/ selectedAnswers' # selectedAnswers))
       => InProgress]_vars

\* handleSubmit has been invoked in this session: an invocation is suspended
\* at a write, or one has ended with a row written or in the catch block.
SubmitInvoked ==
  \/ inflight # <<>>
  \/ attempts # <<>>
  \/ error \in {"attempt", "enrollment", "certificate", "duplicate"}

\* C16: after submit has been invoked the countdown is cancelled: no later
\* step changes the remaining time.
C16_NoTickAfterSubmit ==
  [][SubmitInvoked => timeLeft' = timeLeft]_vars

\* C17: the step in which fetchExam returns either fails, leaving no exam,
\* no answer vector and no countdown, or leaves one unset slot per question
\* of the course's exam and a countdown of duration * 60 seconds; it always
\* fails when the course has no exam, and no countdown ever runs then.
C17_LoadInitialisesSession ==
  /\ [][(loading /\ ~loading') =>
          IF error' # NoError
          THEN exam' = NoExam /\ selectedAnswers' = <<>> /\ timeLeft' = Null
          ELSE /\ Len(dbExams) = 1
               /\ exam'.id = dbExams[1].id
               /\ Len(selectedAnswers') = Len(dbExams[1].questions)
               /\ \A i \in DOMAIN selectedAnswers' :
                    selectedAnswers'[i] = NoSelection
               /\ timeLeft' = dbExams[1].duration * 60]_vars
  /\ [](dbExams = <<>> => (View \in {"Loading", "Error"} /\ ~TimerRunning))

\* fetchExam has just returned an exam of two questions.
C17_Witness ==
  /\ View = "Exam"
  /\ Len(exam.questions) = 2
  /\ selectedAnswers = <<NoSelection, NoSelection>>
  /\ timeLeft = exam.duration * 60

\* The points of the questions whose slot holds a selection equal to the
\* stored correct answer.
RECURSIVE AnsweredEarned(_, _, _)
AnsweredEarned(questions, answers, i) ==
  IF i > Len(questions) THEN 0
  ELSE AnsweredEarned(questions, answers, i + 1)
       + (IF /\ i <= Len(answers)
             /\ answers[i] \notin {NoSelection, Hole}
             /\ StrictEq(NumVal(answers[i]), questions[i].correct_answer)
          THEN questions[i].points ELSE 0)

C19_AttemptScoreInRange ==
  \A a \in DOMAIN attempts :
    /\ ~attempts[a].score.nan
    /\ attempts[a].score.v \in 0 .. 100
    /\ attempts[a].passed = (attempts[a].score.v >= dbExams[1].passing_score)

\* C20: a select on enrollments by a student returns no row of another
\* account, and returns exactly the requester's own rows of the table, so
\* that other accounts' rows have no influence on it.
C20_StudentReadsOwnEnrollmentsOnly ==
  (pg.stage = "tables" /\ pg.read.done /\ pg.read.by # NoUser
     /\ ProfileRole(pg.read.by) = "student")
    => /\ \A r \in pg.read.rows : r.user_id = pg.read.by
       /\ pg.read.rows = {r \in pg.read.table : r.user_id = pg.read.by}

\* A student has read the table while it held a row of another student and
\* a row of the reader.
C20_Witness ==
  /\ pg.stage = "tables"
  /\ pg.read.done
  /\ pg.read.by = "s1"
  /\ pg.read.rows # {}
  /\ \E r \in pg.read.table : r.user_id = "s2"

C22_CourseWritesByOwnerOnly ==
  pg.stage = "courses" =>
    /\ (pg.last.op = "insert course" /\ pg.last.ok)
         => pg.last.by = pg.last.new.instructor_id
    /\ pg.last.op \in {"update course", "delete course"}
         => (pg.last.ok <=> pg.last.by = pg.last.old.instructor_id)

\* The account named as instructor of the course of a course_videos row.
OwnsCourseOf(uid, row) ==
  \E c \in pg.courses : c.id = row.course_id /\ c.instructor_id = uid

\* C23: a write of a course_videos row that goes through was requested by
\* the instructor_id of the course of the row (of the old and of the new row
\* for an update), and the rows a student's select returns are videos of
\* courses the student is enrolled in.
C23_VideoAccessThroughCourse ==
  pg.stage = "courses" =>
    /\ (pg.last.op \in {"insert video", "update video"} /\ pg.last.ok)
         => OwnsCourseOf(pg.last.by, pg.last.new)
    /\ (pg.last.op \in {"update video", "delete video"} /\ pg.last.ok)
         => OwnsCourseOf(pg.last.by, pg.last.old)
    /\ (/\ pg.last.op = "select videos"
        /\ pg.last.by # NoUser
        /\ ProfileRole(pg.last.by) = "student")
         => \A v \in pg.last.rows :
              \E e \in Enrolled :
                e.user_id = pg.last.by /\ e.course_id = v.course_id

\* C24: the enrollments table never holds two rows of the same account and
\* course.
C24_OneEnrollmentPerPair ==
  pg.stage = "tables" =>
    \A r1, r2 \in pg.enrollments :
      (r1.user_id = r2.user_id /\ r1.course_id = r2.course_id) => r1 = r2

\* handleEnroll ran for an account that already held a row for the course.
C24_Witness ==
  /\ pg.stage = "tables"
  /\ pg.enroll.done
  /\ pg.enroll.had
  /\ \E r \in pg.enrollments :
       r.user_id = pg.enroll.by /\ r.course_id = pg.enroll.course_id

\* C27: when handleEnroll has run for a student who held no enrollment for
\* the course, the store admitted the insert and the table holds exactly one
\* row of that student and course, with progress 0.
C27_EnrollCreatesTheRow ==
  (/\ pg.stage = "tables"
   /\ pg.enroll.done
   /\ ~pg.enroll.had
   /\ ProfileRole(pg.enroll.by) = "student")
    => /\ pg.enroll.ok
       /\ Cardinality({r \in pg.enrollments :
                         /\ r.user_id = pg.enroll.by
                         /\ r.course_id = pg.enroll.course_id
                         /\ r.progress = 0}) = 1

VideoOrderDistinct(videos, courseId) ==
  \A i, j \in DOMAIN videos :
    (i # j /\ videos[i].course_id = courseId /\ videos[j].course_id = courseId)
      => videos[i].order_index # videos[j].order_index

\* C26: once a save of a course has succeeded and no save is in flight,
\* the order positions of that course's videos are pairwise distinct.
C26_VideoOrderIsUnique ==
  (pg.stage = "save" /\ pg.saves = <<>>)
    => \A c \in pg.saved : VideoOrderDistinct(pg.videos, c)

\* C28: whatever exam creations have run on a course, course_exams holds
\* at most one row of that course.
C28_OneExamPerCourse ==
  pg.stage = "exams" =>
    \A e1, e2 \in pg.exams : e1.course_id = e2.course_id => e1 = e2

\* C29: when a creation has ended with a questions error, the exam row it
\* created is no longer in course_exams.
C29_FailedCreationLeavesNoExam ==
  (pg.stage = "exams" /\ pg.last.result = "questions error")
    => \A e \in pg.exams : e.id # pg.last.exam_id

\* C30: once signOut has completed successfully, and until a sign-in is
\* started, the auth store's user is null, whatever refreshUserData calls
\* were in flight when signOut ran.
C30_SignedOutStaysSignedOut ==
  (pg.stage = "auth" /\ pg.signedOut) => user = NoUser

=============================================================================
